---- MODULE Spec2Model ----
(***************************************************************************)
(* Model of the response-code scrapers of ews-cpp:                         *)
(*   misc/scrape_response_codes.py           (text recovered from a PDF)   *)
(*   misc/scrape_response_codes_from_msdn.py (HTML table on a web page)    *)
(* Strings are TLA+ strings; a character is a string of length one.        *)
(***************************************************************************)
EXTENDS Integers, Sequences, FiniteSets, TLC

(***************************************************************************)
(* Bounds of the model.                                                    *)
(***************************************************************************)
MaxFragments == 3
MaxRows == 3
MaxStrLen == 4
MaxSuffixLen == 3

(***************************************************************************)
(* Python str and re primitives used by the scripts.                       *)
(***************************************************************************)
Char(s, i) == SubSeq(s, i, i)

StartsWith(s, p) == Len(s) >= Len(p) /\ SubSeq(s, 1, Len(p)) = p

EndsWith(s, p) == Len(s) >= Len(p) /\ SubSeq(s, Len(s) - Len(p) + 1, Len(s)) = p

UpperStr == "ABCDEFGHIJKLMNOPQRSTUVWXYZ"
LowerStr == "abcdefghijklmnopqrstuvwxyz"
DigitStr == "0123456789"

CharsOf(s) == {Char(s, i) : i \in 1..Len(s)}

UpperChars == CharsOf(UpperStr)
LowerChars == CharsOf(LowerStr)
DigitChars == CharsOf(DigitStr)
WordChars == UpperChars \cup LowerChars \cup DigitChars \cup {"_"}
Whitespace == {" ", "\t", "\n", "\r", "\f"}

\* least element of a non-empty set of positions
Least(S) == CHOOSE i \in S : \A j \in S : i <= j

\* greatest element of a non-empty set of positions
Greatest(S) == CHOOSE i \in S : \A j \in S : j <= i

\* str.lower() on one character
LowerChar(c) ==
    IF c \in UpperChars
    THEN Char(LowerStr, CHOOSE i \in 1..Len(UpperStr) : Char(UpperStr, i) = c)
    ELSE c

\* str.lower() on s[i..j], by halves
RECURSIVE LowerRange(_, _, _)
LowerRange(s, i, j) ==
    IF i > j THEN ""
    ELSE IF i = j THEN LowerChar(Char(s, i))
    ELSE LET m == (i + j) \div 2
         IN  LowerRange(s, i, m) \o LowerRange(s, m + 1, j)

\* str.lower()
Lower(s) == LowerRange(s, 1, Len(s))

\* str.strip(): leading and trailing whitespace removed
Strip(s) ==
    LET keep == {i \in 1..Len(s) : Char(s, i) \notin Whitespace}
    IN  IF keep = {} THEN "" ELSE SubSeq(s, Least(keep), Greatest(keep))

\* re.sub(' +', ' ', s) from position i on: each run of spaces becomes one
RECURSIVE CollapseFrom(_, _)
CollapseFrom(s, i) ==
    LET spaces == {k \in i..Len(s) : Char(s, k) = " "}
    IN  IF spaces = {} THEN SubSeq(s, i, Len(s))
        ELSE LET b == Least(spaces)
                 after == {k \in b..Len(s) : Char(s, k) # " "}
                 e == IF after = {} THEN Len(s) + 1 ELSE Least(after)
             IN  SubSeq(s, i, b - 1) \o " " \o CollapseFrom(s, e)

CollapseSpaces(s) == CollapseFrom(s, 1)

\* re.sub(pat, rep, s) for a literal, non-empty pat: leftmost non-overlapping
RECURSIVE ReplaceFrom(_, _, _, _)
ReplaceFrom(s, pat, rep, i) ==
    LET hits == {k \in i..(Len(s) - Len(pat) + 1) :
                    SubSeq(s, k, k + Len(pat) - 1) = pat}
    IN  IF hits = {} THEN SubSeq(s, i, Len(s))
        ELSE LET k == Least(hits)
             IN  SubSeq(s, i, k - 1) \o rep
                     \o ReplaceFrom(s, pat, rep, k + Len(pat))

ReplaceAll(s, pat, rep) == ReplaceFrom(s, pat, rep, 1)

\* str.split(sep) for a one-character sep
RECURSIVE SplitFrom(_, _, _)
SplitFrom(s, sep, i) ==
    LET hits == {k \in i..Len(s) : Char(s, k) = sep}
    IN  IF hits = {} THEN <<SubSeq(s, i, Len(s))>>
        ELSE <<SubSeq(s, i, Least(hits) - 1)>>
                 \o SplitFrom(s, sep, Least(hits) + 1)

Split(s, sep) == SplitFrom(s, sep, 1)

\* sep.join(seq)
RECURSIVE Join(_, _)
Join(seq, sep) ==
    IF Len(seq) = 0 THEN ""
    ELSE IF Len(seq) = 1 THEN seq[1]
    ELSE seq[1] \o sep \o Join(Tail(seq), sep)

\* str.splitlines() on "\n"
SplitLines(s) ==
    IF s = "" THEN <<>>
    ELSE IF EndsWith(s, "\n") THEN Split(SubSeq(s, 1, Len(s) - 1), "\n")
    ELSE Split(s, "\n")

(***************************************************************************)
(* convert_camel_case                                                      *)
(***************************************************************************)
\* end of the run of lowercase letters that contains position i
LowerRunEnd(s, i) ==
    LET stop == {k \in (i + 1)..Len(s) : Char(s, k) \notin LowerChars}
    IN  IF stop = {} THEN Len(s) ELSE Least(stop) - 1

\* re.sub('(.)([A-Z][a-z]+)', r'\1_\2', s) from position i on
RECURSIVE FirstCapFrom(_, _)
FirstCapFrom(s, i) ==
    LET hits == {k \in i..(Len(s) - 2) :
                    /\ Char(s, k) # "\n"
                    /\ Char(s, k + 1) \in UpperChars
                    /\ Char(s, k + 2) \in LowerChars}
    IN  IF hits = {} THEN SubSeq(s, i, Len(s))
        ELSE LET k == Least(hits)
                 e == LowerRunEnd(s, k + 2)
             IN  SubSeq(s, i, k) \o "_" \o SubSeq(s, k + 1, e)
                     \o FirstCapFrom(s, e + 1)

\* re.sub('([a-z0-9])([A-Z])', r'\1_\2', s) from position i on
RECURSIVE AllCapFrom(_, _)
AllCapFrom(s, i) ==
    LET hits == {k \in i..(Len(s) - 1) :
                    /\ Char(s, k) \in LowerChars \cup DigitChars
                    /\ Char(s, k + 1) \in UpperChars}
    IN  IF hits = {} THEN SubSeq(s, i, Len(s))
        ELSE LET k == Least(hits)
             IN  SubSeq(s, i, k) \o "_" \o Char(s, k + 1)
                     \o AllCapFrom(s, k + 2)

\* faulty variant of the second substitution: the capital letter is left
\* out of the replacement
RECURSIVE AllCapDropFrom(_, _)
AllCapDropFrom(s, i) ==
    LET hits == {k \in i..(Len(s) - 1) :
                    /\ Char(s, k) \in LowerChars \cup DigitChars
                    /\ Char(s, k + 1) \in UpperChars}
    IN  IF hits = {} THEN SubSeq(s, i, Len(s))
        ELSE LET k == Least(hits)
             IN  SubSeq(s, i, k) \o "_" \o AllCapDropFrom(s, k + 2)

\* faulty variant of convert_camel_case
convert_camel_case_drops_cap(name) ==
    Lower(AllCapDropFrom(FirstCapFrom(name, 1), 1))

convert_camel_case(name) == Lower(AllCapFrom(FirstCapFrom(name, 1), 1))

(***************************************************************************)
(* scrape_response_codes.py: class Data                                    *)
(***************************************************************************)
\* value of the attribute "comment" before interpret sets it
NoAttr == "<no attribute>"

\* Data.__init__
Data(response_code) ==
    [response_code |-> response_code, message |-> "", applicable_methods |-> "",
     comments |-> "", comment |-> NoAttr]

\* the two message/comments substitutions of Data.sanitize, after strip()
SanitizeText(s) == ReplaceAll(CollapseSpaces(Strip(s)), "- ", "")

\* Data.sanitize
Sanitize(d) ==
    [d EXCEPT !.response_code = Strip(d.response_code),
              !.message = SanitizeText(d.message),
              !.applicable_methods = Strip(d.applicable_methods),
              !.comments = SanitizeText(d.comments)]

(***************************************************************************)
(* scrape_response_codes.py: interpret, line classification                *)
(***************************************************************************)
\* response_code_expr: ^Error\w+$|^NoError$
is_response_code_line(string) ==
    \/ /\ StartsWith(string, "Error")
       /\ Len(string) >= 6
       /\ \A i \in 6..Len(string) : Char(string, i) \in WordChars
    \/ string = "NoError"

\* faulty variant of MessageComplete: only a final period ends the message
MessageCompleteOnPeriod(line) == EndsWith(line, ".")

\* the test that ends the message ("description") of a record
MessageComplete(line) ==
    EndsWith(line, ".") \/ EndsWith(line, "various messages") \/ line = "N/A"

\* the character-count threshold of the look-ahead
LookAheadLen == 31

\* faulty variant of LookAheadStays: an empty next line is taken for a short
\* line of the field
LookAheadStaysOnEmpty(has_next, next_line) ==
    /\ has_next
    /\ (Len(next_line) < LookAheadLen \/ EndsWith(next_line, ")"))
    /\ ~EndsWith(next_line, ".")

\* the look-ahead of the "Applicable Methods" branch; has_next is FALSE when
\* next_line is None
LookAheadStays(has_next, next_line) ==
    /\ has_next
    /\ next_line # ""
    /\ (Len(next_line) < LookAheadLen \/ EndsWith(next_line, ")"))
    /\ ~EndsWith(next_line, ".")

\* faulty variant of MessageStep: the separating space is appended after the
\* completing line too
MessageStepTrailingSpace(d, line) ==
    [d EXCEPT !.message = d.message \o line \o " "]

\* the message branch: the record after the line is consumed
MessageStep(d, line) ==
    IF MessageComplete(line)
    THEN [d EXCEPT !.message = d.message \o line]
    ELSE [d EXCEPT !.message = d.message \o line \o " "]

\* the methods branch: the record after the line is consumed
MethodsStep(d, line) ==
    IF d.applicable_methods = ""
    THEN [d EXCEPT !.applicable_methods = line]
    ELSE [d EXCEPT !.applicable_methods = d.applicable_methods \o line \o " "]

\* faulty variant of CommentsStep: the trailing period of a bullet point
\* is kept
CommentsStepKeepsPeriod(d, line) ==
    IF StartsWith(line, "-")
    THEN [d EXCEPT !.comments =
             d.comments \o "\n" \o "* " \o SubSeq(line, 2, Len(line))]
    ELSE [d EXCEPT !.comments = d.comments \o line \o " "]

\* the comments branch for a non-blank line
CommentsStep(d, line) ==
    IF StartsWith(line, "-")
    THEN LET c == d.comments \o "\n" \o "* " \o SubSeq(line, 2, Len(line))
         IN  [d EXCEPT !.comments =
                 IF EndsWith(c, ".") THEN SubSeq(c, 1, Len(c) - 1) ELSE c]
    ELSE [d EXCEPT !.comments = d.comments \o line \o " "]

\* the comments branch for a blank line: the record as it is yielded
FinalizeStep(d) == [d EXCEPT !.comment = Strip(d.comments)]

(***************************************************************************)
(* scrape_response_codes_from_msdn.py: ResponseCode and the page           *)
(***************************************************************************)
\* ResponseCode.__init__ (the two assertions are checked by the caller)
ResponseCode(response_code, description) ==
    [response_code |-> response_code, description |-> description]

\* str(desc_html) converted by html2text: the text of the cell, ended as a
\* paragraph
Html2Text(cell_text) == cell_text \o "\n\n"

\* re.sub("^\|", "", comment)
DropLeadingBar(comment) ==
    IF StartsWith(comment, "|") THEN SubSeq(comment, 2, Len(comment)) ELSE comment

\* sanitize inside response_code_in_page; the replacement "\li" is taken
\* literally (interpreters that accept the escape)
SanitizeComment(comment) ==
    Strip(ReplaceAll(CollapseSpaces(ReplaceAll(DropLeadingBar(comment),
                                               "  *", "\\li")), "- ", ""))

\* extract_table_row: the pair (val, sanitize(desc)) of a row with a Value cell
extract_table_row(r) == <<r.val, SanitizeComment(Html2Text(r.desc))>>

\* the rows whose cells hold the string "NoError"
HasNoErrorCell(r) == r.has_value /\ r.val = "NoError"

\* faulty variant of find_first_row: the row of the last "NoError" cell
find_first_row_last(d) ==
    IF \E i \in 1..Len(d) : HasNoErrorCell(d[i])
    THEN Greatest({i \in 1..Len(d) : HasNoErrorCell(d[i])})
    ELSE 0

\* find_first_row: index of the row of the first "NoError" cell, 0 when no
\* table holds one
find_first_row(d) ==
    IF \E i \in 1..Len(d) : HasNoErrorCell(d[i])
    THEN CHOOSE i \in 1..Len(d) :
             HasNoErrorCell(d[i]) /\ \A j \in 1..(i - 1) : ~HasNoErrorCell(d[j])
    ELSE 0

\* first_row.find_next_siblings("tr"): r is a later row of the table of row f
IsNextSibling(d, f, r) ==
    f < r /\ r <= Len(d) /\ \A j \in (f + 1)..r : ~d[j].table_start

(***************************************************************************)
(* The code emitters.  The printed code is kept as its parts: the text of  *)
(* each comment block and the names and strings of each entry.             *)
(***************************************************************************)
\* column of print_line_with_continuation
Column == 80

\* the words of s from position i on, split at whitespace
RECURSIVE WordsFrom(_, _)
WordsFrom(s, i) ==
    LET starts == {k \in i..Len(s) : Char(s, k) \notin Whitespace}
    IN  IF starts = {} THEN <<>>
        ELSE LET b == Least(starts)
                 stops == {k \in b..Len(s) : Char(s, k) \in Whitespace}
                 e == IF stops = {} THEN Len(s) + 1 ELSE Least(stops)
             IN  <<SubSeq(s, b, e - 1)>> \o WordsFrom(s, e)

RECURSIVE FillFrom(_, _, _, _, _)
FillFrom(words, k, cur, pref, width) ==
    IF k > Len(words) THEN <<cur>>
    ELSE IF cur = pref THEN FillFrom(words, k + 1, cur \o words[k], pref, width)
    ELSE IF Len(cur) + 1 + Len(words[k]) <= width
         THEN FillFrom(words, k + 1, cur \o " " \o words[k], pref, width)
         ELSE <<cur>> \o FillFrom(words, k + 1, pref \o words[k], pref, width)

\* textwrap.wrap(block, width, initial_indent=pref, subsequent_indent=pref)
\* for words shorter than the width and without hyphens
Wrap(block, width, pref) ==
    LET words == WordsFrom(block, 1)
    IN  IF words = <<>> THEN <<>> ELSE FillFrom(words, 1, pref, pref, width)

\* print_line_with_continuation: the text that is printed
print_line_with_continuation(line, indentation, prefix) ==
    LET pref == indentation \o prefix
        blocks == SplitLines(line)
    IN  Join([b \in 1..Len(blocks) |->
                 Join(Wrap(blocks[b], Column, pref), "\n")], "\n")

\* faulty variant of Pdf_print_cxx_enum: the last member gets a comma too
Pdf_print_cxx_enum_all_commas(vals) ==
    [i \in 1..Len(vals) |->
        [comment |-> print_line_with_continuation(vals[i].comments,
                                                  "        ", "// "),
         member |-> convert_camel_case(vals[i].response_code),
         comma |-> TRUE]]

\* scrape_response_codes.py print_cxx_enum: one entry per item
Pdf_print_cxx_enum(vals) ==
    [i \in 1..Len(vals) |->
        [comment |-> print_line_with_continuation(vals[i].comments,
                                                  "        ", "// "),
         member |-> convert_camel_case(vals[i].response_code),
         comma |-> (i # Len(vals))]]

\* scrape_response_codes_from_msdn.py print_cxx_enum: one entry per item
Msdn_print_cxx_enum(vals) ==
    [i \in 1..Len(vals) |->
        [comment |-> print_line_with_continuation(vals[i].description,
                                                  "        ", "//! "),
         member |-> convert_camel_case(vals[i].response_code),
         comma |-> (i # Len(vals))]]

\* one entry of a conversion table
TableEntry(v) ==
    [key |-> v.response_code, member |-> convert_camel_case(v.response_code)]

\* scrape_response_codes.py print_cxx_str_to_enum_function, called with the
\* items left after items.pop() and the popped item: the initializer of the
\* unordered_map m and what follows m.find(str) == m.end()
Pdf_print_cxx_str_to_enum_function(rest, last) ==
    [kind |-> "map",
     entries |-> [i \in 1..Len(rest) |-> TableEntry(rest[i])]
                 \o <<TableEntry(last)>>,
     on_missing |-> "throw"]

\* faulty variant of Msdn_print_cxx_str_to_enum_function: the statement
\* after the comparisons returns a member
Msdn_print_cxx_str_to_enum_function_default(vals) ==
    [kind |-> "if_chain",
     entries |-> [i \in 1..Len(vals) |-> TableEntry(vals[i])],
     on_missing |-> "default"]

\* scrape_response_codes_from_msdn.py print_cxx_str_to_enum_function: the
\* chain of comparisons and the statement after it
Msdn_print_cxx_str_to_enum_function(vals) ==
    [kind |-> "if_chain",
     entries |-> [i \in 1..Len(vals) |-> TableEntry(vals[i])],
     on_missing |-> "throw"]

\* faulty variant of print_enum_to_str_function: each case returns the
\* member name
print_enum_to_str_function_names(vals) ==
    [kind |-> "switch",
     entries |-> [i \in 1..Len(vals) |->
                     [key |-> convert_camel_case(vals[i].response_code),
                      member |-> convert_camel_case(vals[i].response_code)]],
     on_missing |-> "throw"]

\* print_enum_to_str_function: the case labels with the strings they return,
\* and the default label
print_enum_to_str_function(vals) ==
    [kind |-> "switch",
     entries |-> [i \in 1..Len(vals) |-> TableEntry(vals[i])],
     on_missing |-> "throw"]

\* nothing printed yet
NoTable == [kind |-> "none", entries |-> <<>>, on_missing |-> "none"]

\* results of a call of the generated functions
Throw == [threw |-> TRUE, value |-> "Unrecognized response code"]
Return(v) == [threw |-> FALSE, value |-> v]

\* the generated string_to_response_code_enum / str_to_response_code called
\* with str: m.find(str) and the comparisons both take the first entry whose
\* string equals str
StrToEnum(table, str) ==
    LET hits == {i \in 1..Len(table.entries) : table.entries[i].key = str}
    IN  IF hits = {}
        THEN IF table.on_missing = "throw" THEN Throw
             ELSE Return(table.entries[1].member)
        ELSE Return(table.entries[CHOOSE i \in hits : \A j \in hits : i <= j].member)

\* a switch with two equal case labels is ill-formed: there is no function
IllFormed == [threw |-> TRUE, value |-> "ill-formed: duplicate case label"]

\* the generated enum_to_str called with code
EnumToStr(table, code) ==
    LET hits == {i \in 1..Len(table.entries) : table.entries[i].member = code}
    IN  IF \E i, j \in 1..Len(table.entries) :
               i # j /\ table.entries[i].member = table.entries[j].member
        THEN IllFormed
        ELSE IF hits = {} THEN Throw
        ELSE Return(table.entries[CHOOSE i \in hits : TRUE].key)

(***************************************************************************)
(* State.                                                                  *)
(*   variant            which script runs ("pdf" or "msdn")                *)
(*   re_escape          how re.sub treats the replacement "\li": taken     *)
(*                      literally, or rejected as a bad escape             *)
(*   pc, raised         position in main and the exception that ended it   *)
(*   lines, count       interpret: text.split("\n") and the loop counter   *)
(*   content            interpret: the current Data (index in heap, 0 for  *)
(*                      None)                                              *)
(*   in_*_line          interpret: the three flags                         *)
(*   heap               the objects created, in creation order            *)
(*   items              main: the list of objects (indices in heap)        *)
(*   out                what has been printed                              *)
(*   doc, row           the table rows of the page and the row last read   *)
(*   born, reached, yielded   history: where each object was created, the  *)
(*                      objects that were current in the comments state,   *)
(*                      the objects in the order they were yielded with    *)
(*                      their fields at that moment                        *)
(***************************************************************************)
VARIABLES variant, re_escape, pc, raised, lines, count, content,
          in_message_line, in_methods_line, in_comments_line,
          heap, items, out, doc, row, born, reached, yielded

vars == <<variant, re_escape, pc, raised, lines, count, content,
          in_message_line, in_methods_line, in_comments_line,
          heap, items, out, doc, row, born, reached, yielded>>

flags == <<in_message_line, in_methods_line, in_comments_line>>
page == <<variant, re_escape, lines, doc>>

\* pieces of the text read by interpret: single lines, and the lines of a
\* whole record (with comment and closing blank line, without comment,
\* without closing blank line)
CoreFragments ==
    {<<"ErrorAccessDenied">>, <<"NoError">>, <<"Access is denied.">>,
     <<"CreateItem">>, <<"None.">>, <<"">>, <<"-first point.">>,
     <<"ErrorAccessDenied", "Access is denied.", "CreateItem", "None.", "">>,
     <<"NoError", "No error occurred.", "N/A", "">>,
     <<"ErrorAccessDenied", "Access is denied.", "CreateItem", "None.">>}

RECURSIVE Flatten(_)
Flatten(seqs) ==
    IF seqs = <<>> THEN <<>> ELSE Head(seqs) \o Flatten(Tail(seqs))

\* rows of the page: a row with a Value cell and a Description cell, or a
\* header row without them; table_start marks the first row of a table
Rows ==
    [has_value : {TRUE}, val : {"NoError", "ErrorAb", "ErrorAB", "Success"},
     desc : {"No  error."}, table_start : BOOLEAN]
    \cup [has_value : {TRUE}, val : {"ErrorAb"}, desc : {""},
          table_start : BOOLEAN]
    \cup [has_value : {FALSE}, val : {""}, desc : {"Description"},
          table_start : BOOLEAN]

NoOutput == [enum |-> <<>>, str_to_enum |-> NoTable, enum_to_str |-> NoTable]

InitCommon ==
    /\ raised = ""
    /\ count = 0
    /\ content = 0
    /\ in_message_line = FALSE
    /\ in_methods_line = FALSE
    /\ in_comments_line = FALSE
    /\ heap = <<>>
    /\ items = <<>>
    /\ out = NoOutput
    /\ row = 0
    /\ born = <<>>
    /\ reached = {}
    /\ yielded = <<>>

\* main of scrape_response_codes.py after convert(filename): text is made
\* of up to MaxFragments pieces of FragmentSet, and interpret splits it
InitPdf(FragmentSet) ==
    /\ variant = "pdf"
    /\ re_escape = "literal"
    /\ pc = "interpret"
    /\ \E n \in 1..MaxFragments : \E fs \in [1..n -> FragmentSet] :
           lines = Split(Join(Flatten(fs), "\n"), "\n")
    /\ doc = <<>>
    /\ InitCommon

\* main of scrape_response_codes_from_msdn.py after grab_page(url)
InitMsdn ==
    /\ variant = "msdn"
    /\ re_escape \in {"literal", "error"}
    /\ pc = "scrape"
    /\ lines = <<>>
    /\ \E n \in 0..MaxRows : doc \in [1..n -> Rows]
    /\ InitCommon

Init == InitPdf(CoreFragments) \/ InitMsdn

(***************************************************************************)
(* interpret: one action per branch of the loop body.                      *)
(***************************************************************************)
\* the state of the extraction, as the if/elif chain reads the flags
StateOf(msg, mth, cmt) ==
    IF msg THEN "IN_DESCRIPTION"
    ELSE IF mth THEN "IN_APPLICABILITY"
    ELSE IF cmt THEN "IN_COMMENTS"
    ELSE "SEEKING_KEY"

State == StateOf(in_message_line, in_methods_line, in_comments_line)

line == lines[count + 1]
has_next == count + 1 < Len(lines)
next_line == IF has_next THEN lines[count + 2] ELSE ""

InLoop == pc = "interpret" /\ count < Len(lines)

\* history of the objects that were current in the comments state with
\* input left to read
Reach ==
    reached' =
        IF /\ StateOf(in_message_line', in_methods_line', in_comments_line')
                  = "IN_COMMENTS"
           /\ count' < Len(lines)
        THEN reached \cup {content'} ELSE reached

\* main: the body of "for data in interpret(text)"
MainAppend(its, id) == Append(its, id)

\* faulty variant of KeyLine: the current object is filled again instead of
\* a new one being created
KeyLineReusesRecord ==
    /\ InLoop
    /\ is_response_code_line(line)
    /\ count' = count + 1
    /\ IF content = 0
       THEN /\ heap' = Append(heap, Data(line))
            /\ born' = Append(born, count + 1)
            /\ content' = 1
       ELSE /\ heap' = [heap EXCEPT ![content] = Data(line)]
            /\ born' = [born EXCEPT ![content] = count + 1]
            /\ content' = content
    /\ in_message_line' = TRUE
    /\ UNCHANGED <<page, pc, raised, in_methods_line, in_comments_line,
                   items, out, row, yielded>>
    /\ Reach

\* if is_response_code_line(line)
KeyLine ==
    /\ InLoop
    /\ is_response_code_line(line)
    /\ count' = count + 1
    /\ heap' = Append(heap, Data(line))
    /\ born' = Append(born, count + 1)
    /\ content' = Len(heap) + 1
    /\ in_message_line' = TRUE
    /\ UNCHANGED <<page, pc, raised, in_methods_line, in_comments_line,
                   items, out, row, yielded>>
    /\ Reach

\* elif in_message_line
MessageLine ==
    /\ InLoop
    /\ ~is_response_code_line(line)
    /\ in_message_line
    /\ count' = count + 1
    /\ heap' = [heap EXCEPT ![content] = MessageStep(@, line)]
    /\ IF MessageComplete(line)
       THEN in_message_line' = FALSE /\ in_methods_line' = TRUE
       ELSE UNCHANGED <<in_message_line, in_methods_line>>
    /\ UNCHANGED <<page, pc, raised, content, in_comments_line, items, out,
                   row, born, yielded>>
    /\ Reach

\* elif in_methods_line
MethodsLine ==
    /\ InLoop
    /\ ~is_response_code_line(line)
    /\ ~in_message_line
    /\ in_methods_line
    /\ count' = count + 1
    /\ heap' = [heap EXCEPT ![content] = MethodsStep(@, line)]
    /\ IF LookAheadStays(has_next, next_line)
       THEN in_methods_line' = TRUE /\ in_comments_line' = FALSE
       ELSE in_methods_line' = FALSE /\ in_comments_line' = TRUE
    /\ UNCHANGED <<page, pc, raised, content, in_message_line, items, out,
                   row, born, yielded>>
    /\ Reach

\* elif in_comments_line, if not line: the record is yielded and main
\* sanitizes and appends it before the loop goes on
CommentsBlankLine ==
    /\ InLoop
    /\ ~is_response_code_line(line)
    /\ ~in_message_line
    /\ ~in_methods_line
    /\ in_comments_line
    /\ line = ""
    /\ count' = count + 1
    /\ in_comments_line' = FALSE
    /\ yielded' = Append(yielded, [id |-> content,
                                   data |-> FinalizeStep(heap[content])])
    /\ heap' = [heap EXCEPT ![content] = Sanitize(FinalizeStep(@))]
    /\ items' = MainAppend(items, content)
    /\ UNCHANGED <<page, pc, raised, content, in_message_line,
                   in_methods_line, out, row, born>>
    /\ Reach

\* elif in_comments_line, else
CommentsTextLine ==
    /\ InLoop
    /\ ~is_response_code_line(line)
    /\ ~in_message_line
    /\ ~in_methods_line
    /\ in_comments_line
    /\ line # ""
    /\ count' = count + 1
    /\ heap' = [heap EXCEPT ![content] = CommentsStep(@, line)]
    /\ UNCHANGED <<page, pc, raised, content, flags, items, out, row, born,
                   yielded>>
    /\ Reach

\* no branch is taken
OtherLine ==
    /\ InLoop
    /\ ~is_response_code_line(line)
    /\ ~in_message_line
    /\ ~in_methods_line
    /\ ~in_comments_line
    /\ count' = count + 1
    /\ UNCHANGED <<page, pc, raised, content, flags, heap, items, out, row,
                   born, reached, yielded>>

\* faulty variant of EndOfInput: a record in progress is yielded when the
\* loop ends
EndOfInputFinalizes ==
    /\ pc = "interpret"
    /\ count = Len(lines)
    /\ pc' = "print_enum"
    /\ IF State # "SEEKING_KEY"
       THEN /\ yielded' = Append(yielded,
                                 [id |-> content,
                                  data |-> FinalizeStep(heap[content])])
            /\ heap' = [heap EXCEPT ![content] = Sanitize(FinalizeStep(@))]
            /\ items' = MainAppend(items, content)
       ELSE UNCHANGED <<heap, items, yielded>>
    /\ UNCHANGED <<page, raised, count, content, flags, out, row, born,
                   reached>>

\* the for loop of interpret ends: the generator is exhausted and main goes
\* on to print
EndOfInput ==
    /\ pc = "interpret"
    /\ count = Len(lines)
    /\ pc' = "print_enum"
    /\ UNCHANGED <<page, raised, count, content, flags, heap, items, out,
                   row, born, reached, yielded>>

(***************************************************************************)
(* response_code_in_page, consumed by the list comprehension of main.      *)
(***************************************************************************)
\* extract_table_row and ResponseCode(code, description) for row r: the
\* exception raised, "" when the object is created
RowRaises(r) ==
    IF ~r.has_value THEN "AttributeError"
    ELSE IF re_escape = "error" THEN "re.error"
    ELSE IF extract_table_row(r)[1] = "" \/ extract_table_row(r)[2] = ""
         THEN "AssertionError"
    ELSE ""

\* the row is extracted and its ResponseCode yielded and collected, or the
\* exception ends main
YieldRow(r) ==
    IF RowRaises(doc[r]) # ""
    THEN /\ pc' = "error"
         /\ raised' = RowRaises(doc[r])
         /\ UNCHANGED <<heap, born, yielded, items, row>>
    ELSE LET rc == ResponseCode(extract_table_row(doc[r])[1],
                                extract_table_row(doc[r])[2])
         IN  /\ heap' = Append(heap, rc)
             /\ born' = Append(born, r)
             /\ yielded' = Append(yielded, [id |-> Len(heap) + 1, data |-> rc])
             /\ items' = Append(items, Len(heap) + 1)
             /\ row' = r
             /\ UNCHANGED <<pc, raised>>

\* first_row = find_first_row() and the first yield
FirstRow ==
    /\ pc = "scrape"
    /\ row = 0
    /\ IF find_first_row(doc) = 0
       THEN /\ pc' = "error"
            /\ raised' = "Exception"
            /\ UNCHANGED <<heap, born, yielded, items, row>>
       ELSE YieldRow(find_first_row(doc))
    /\ UNCHANGED <<page, count, content, flags, out, reached>>

\* for table_row in first_row.find_next_siblings("tr")
NextRow ==
    /\ pc = "scrape"
    /\ row # 0
    /\ IsNextSibling(doc, find_first_row(doc), row + 1)
    /\ YieldRow(row + 1)
    /\ UNCHANGED <<page, count, content, flags, out, reached>>

\* no sibling is left
EndOfRows ==
    /\ pc = "scrape"
    /\ row # 0
    /\ ~IsNextSibling(doc, find_first_row(doc), row + 1)
    /\ pc' = "print_enum"
    /\ UNCHANGED <<page, raised, count, content, flags, heap, items, out,
                   row, born, reached, yielded>>

(***************************************************************************)
(* main: the calls of the emitters.                                        *)
(***************************************************************************)
\* the objects of a list
ItemVals(its) == [i \in 1..Len(its) |-> heap[its[i]]]

\* print_cxx_enum(items)
PrintCxxEnum ==
    /\ pc = "print_enum"
    /\ out' = [out EXCEPT !.enum =
                  IF variant = "pdf" THEN Pdf_print_cxx_enum(ItemVals(items))
                  ELSE Msdn_print_cxx_enum(ItemVals(items))]
    /\ pc' = "print_str_to_enum"
    /\ UNCHANGED <<page, raised, count, content, flags, heap, items, row,
                   born, reached, yielded>>

\* scrape_response_codes.py print_cxx_str_to_enum_function(items):
\* last = items.pop() takes the last object off the list of main, and raises
\* IndexError on an empty list
PdfPrintCxxStrToEnum ==
    /\ pc = "print_str_to_enum"
    /\ variant = "pdf"
    /\ IF items = <<>>
       THEN /\ pc' = "error"
            /\ raised' = "IndexError"
            /\ UNCHANGED <<items, out>>
       ELSE /\ items' = SubSeq(items, 1, Len(items) - 1)
            /\ out' = [out EXCEPT !.str_to_enum =
                          Pdf_print_cxx_str_to_enum_function(
                              ItemVals(SubSeq(items, 1, Len(items) - 1)),
                              heap[items[Len(items)]])]
            /\ pc' = "done"
            /\ UNCHANGED raised
    /\ UNCHANGED <<page, count, content, flags, heap, row, born, reached,
                   yielded>>

\* scrape_response_codes_from_msdn.py print_cxx_str_to_enum_function(items)
MsdnPrintCxxStrToEnum ==
    /\ pc = "print_str_to_enum"
    /\ variant = "msdn"
    /\ out' = [out EXCEPT !.str_to_enum =
                  Msdn_print_cxx_str_to_enum_function(ItemVals(items))]
    /\ pc' = "print_enum_to_str"
    /\ UNCHANGED <<page, raised, count, content, flags, heap, items, row,
                   born, reached, yielded>>

\* print_enum_to_str_function(items)
PrintEnumToStr ==
    /\ pc = "print_enum_to_str"
    /\ out' = [out EXCEPT !.enum_to_str =
                  print_enum_to_str_function(ItemVals(items))]
    /\ pc' = "done"
    /\ UNCHANGED <<page, raised, count, content, flags, heap, items, row,
                   born, reached, yielded>>

Next ==
    \/ KeyLine
    \/ MessageLine
    \/ MethodsLine
    \/ CommentsBlankLine
    \/ CommentsTextLine
    \/ OtherLine
    \/ EndOfInput
    \/ FirstRow
    \/ NextRow
    \/ EndOfRows
    \/ PrintCxxEnum
    \/ PdfPrintCxxStrToEnum
    \/ MsdnPrintCxxStrToEnum
    \/ PrintEnumToStr

Spec == Init /\ [][Next]_vars

(***************************************************************************)
(* Data.sanitize applied again and again to one record (a second           *)
(* specification, for the properties of sanitize alone).                   *)
(***************************************************************************)
Alphabet == {"a", "-", " ", "\t"}

RECURSIVE StringsOfLen(_)
StringsOfLen(n) ==
    IF n = 0 THEN {""}
    ELSE {s \o c : s \in StringsOfLen(n - 1), c \in Alphabet}

Strings(n) == UNION {StringsOfLen(k) : k \in 0..n}

\* a Data whose text fields all hold one string of up to MaxStrLen characters
InitSanitize ==
    /\ variant = "sanitize"
    /\ re_escape = "literal"
    /\ pc = "sanitize"
    /\ lines = <<>>
    /\ doc = <<>>
    /\ raised = ""
    /\ count = 0
    /\ content = 0
    /\ in_message_line = FALSE
    /\ in_methods_line = FALSE
    /\ in_comments_line = FALSE
    /\ \E s \in Strings(MaxStrLen) : \E rc \in {"NoError", " NoError\t"} :
           heap = <<[Data(rc) EXCEPT !.message = s,
                                     !.applicable_methods = s,
                                     !.comments = s]>>
    /\ items = <<1>>
    /\ out = NoOutput
    /\ row = 0
    /\ born = <<0>>
    /\ reached = {}
    /\ yielded = <<>>

\* data.sanitize(); count counts the calls and yielded keeps the record as
\* the first call left it
SanitizeCall ==
    /\ pc = "sanitize"
    /\ count < 2
    /\ count' = count + 1
    /\ heap' = [heap EXCEPT ![1] = Sanitize(@)]
    /\ yielded' = IF count = 0 THEN <<[id |-> 1, data |-> Sanitize(heap[1])]>>
                  ELSE yielded
    /\ UNCHANGED <<page, pc, raised, content, flags, items, out, row, born,
                   reached>>

SpecSanitize == InitSanitize /\ [][SanitizeCall]_vars

(***************************************************************************)
(* interpret on texts with wrapped fields (a specification of its own, for *)
(* the look-ahead and the collection of the description and of the         *)
(* applicable methods).                                                    *)
(***************************************************************************)
\* pieces of the text: a record up to its first line of methods, a key
\* line, lines of a description, lines of 10, 30, 31 and 32 characters with
\* and without a closing parenthesis or period, an empty line, a comment,
\* a record with a description of two lines up to its line of methods
WrapFragments ==
    {<<"ErrorAccessDenied", "Access is denied.", "CreateItem">>,
     <<"ErrorAccessDenied">>, <<"Access is">>, <<"See various messages">>,
     <<"N/A">>, <<"UpdateItem">>, <<"GetItem, SendItem and MoveItem">>,
     <<"The caller lacks this privilege">>,
     <<"FindItem (only for public items)">>,
     <<"This applies to delegate access.">>, <<"">>, <<"None.">>,
     <<"NoError", "No error", "occurred.", "N/A">>}

InitWrap == InitPdf(WrapFragments)

\* the steps of "for data in interpret(text)"
NextInterpret ==
    \/ KeyLine
    \/ MessageLine
    \/ MethodsLine
    \/ CommentsBlankLine
    \/ CommentsTextLine
    \/ OtherLine
    \/ EndOfInput

SpecWrap == InitWrap /\ [][NextInterpret]_vars

(***************************************************************************)
(* interpret on texts with bullet points in the comments (a specification  *)
(* of its own).                                                            *)
(***************************************************************************)
\* pieces of the text: a record up to its line of methods, a key line, a
\* comment, bullet points with and without a final period, an empty line
BulletFragments ==
    {<<"ErrorAccessDenied", "Access is denied.", "CreateItem">>,
     <<"NoError">>, <<"None.">>, <<"-first point.">>, <<"-second point">>,
     <<"">>}

InitBullet == InitPdf(BulletFragments)

SpecBullet == InitBullet /\ [][NextInterpret]_vars

(***************************************************************************)
(* convert_camel_case applied to two record keys (a third specification,   *)
(* for the properties of the conversion alone).                            *)
(***************************************************************************)
KeyAlphabet == {"A", "b", "_"}

RECURSIVE SuffixesOfLen(_)
SuffixesOfLen(n) ==
    IF n = 0 THEN {""}
    ELSE {s \o c : s \in SuffixesOfLen(n - 1), c \in KeyAlphabet}

\* the record keys with a suffix of up to MaxSuffixLen characters
RecordKeys ==
    {"NoError"} \cup {"Error" \o s :
                         s \in UNION {SuffixesOfLen(k) : k \in 1..MaxSuffixLen}}

\* two record keys wait to be converted
InitCamel ==
    /\ variant = "camel"
    /\ re_escape = "literal"
    /\ pc = "camel"
    /\ \E k1, k2 \in RecordKeys : lines = <<k1, k2>>
    /\ doc = <<>>
    /\ InitCommon

\* convert_camel_case(key) for the next key; heap collects the results
ConvertCall ==
    /\ pc = "camel"
    /\ count < Len(lines)
    /\ count' = count + 1
    /\ heap' = Append(heap, convert_camel_case(lines[count + 1]))
    /\ UNCHANGED <<page, pc, raised, content, flags, items, out, row, born,
                   reached, yielded>>

SpecCamel == InitCamel /\ [][ConvertCall]_vars

(***************************************************************************)
(* sanitize of response_code_in_page applied again and again to one        *)
(* string (a specification of its own, for the properties of the           *)
(* sanitizer alone).                                                       *)
(***************************************************************************)
CommentAlphabet == {"a", "-", "|", " ", "*"}

RECURSIVE CommentsOfLen(_)
CommentsOfLen(n) ==
    IF n = 0 THEN {""}
    ELSE {s \o c : s \in CommentsOfLen(n - 1), c \in CommentAlphabet}

\* a string of up to MaxStrLen characters waits to be sanitized
InitSanitizeComment ==
    /\ variant = "msdn_sanitize"
    /\ re_escape \in {"literal", "error"}
    /\ pc = "sanitize"
    /\ lines = <<>>
    /\ doc = <<>>
    /\ raised = ""
    /\ count = 0
    /\ content = 0
    /\ in_message_line = FALSE
    /\ in_methods_line = FALSE
    /\ in_comments_line = FALSE
    /\ \E n \in 0..MaxStrLen : \E s \in CommentsOfLen(n) : heap = <<s>>
    /\ items = <<>>
    /\ out = NoOutput
    /\ row = 0
    /\ born = <<0>>
    /\ reached = {}
    /\ yielded = <<>>

\* comment = sanitize(comment): re.sub rejects the replacement "\li", or
\* the string is sanitized; count counts the calls and yielded keeps the
\* result of the first call
SanitizeCommentCall ==
    /\ pc = "sanitize"
    /\ count < 2
    /\ IF re_escape = "error"
       THEN /\ pc' = "error"
            /\ raised' = "re.error"
            /\ UNCHANGED <<count, heap, yielded>>
       ELSE /\ count' = count + 1
            /\ heap' = <<SanitizeComment(heap[1])>>
            /\ yielded' = IF count = 0 THEN <<SanitizeComment(heap[1])>>
                          ELSE yielded
            /\ UNCHANGED <<pc, raised>>
    /\ UNCHANGED <<page, content, flags, items, out, row, born, reached>>

SpecSanitizeComment == InitSanitizeComment /\ [][SanitizeCommentCall]_vars

(***************************************************************************)
(* Properties.                                                             *)
(***************************************************************************)
\* the objects yielded, in the order of the yields
YieldedIds == [i \in 1..Len(yielded) |-> yielded[i].id]

\* the records of the catalog as main holds them when extraction is over
Catalog == [i \in 1..Len(yielded) |-> heap[yielded[i].id]]

Extracted == pc \notin {"interpret", "scrape", "sanitize", "error"}

\* C1: interpret yields as many records as there are record-key lines whose
\* record reaches IN_COMMENTS before the end of the input.
C1_YieldedCountIsReachedCount ==
    (variant = "pdf" /\ pc # "interpret") =>
        Len(yielded) = Cardinality(reached)

\* C2: records are yielded in source order.  interpret: the yielded records
\* were created at strictly increasing lines, each a record-key line whose
\* text is the key.  response_code_in_page: the first record comes from the
\* first row with a NoError cell, the next ones from the rows that follow
\* it, one after the other.  No record is yielded twice.
C2_YieldedInSourceOrder ==
    /\ \A i, j \in 1..Len(yielded) :
           i < j => born[yielded[i].id] < born[yielded[j].id]
    /\ variant = "pdf" =>
           \A i \in 1..Len(yielded) :
               /\ is_response_code_line(lines[born[yielded[i].id]])
               /\ yielded[i].data.response_code = lines[born[yielded[i].id]]
    /\ variant = "msdn" =>
           /\ \A i \in 1..Len(yielded) :
                  yielded[i].data.response_code = doc[born[yielded[i].id]].val
           /\ Len(yielded) >= 1 =>
                  /\ HasNoErrorCell(doc[born[yielded[1].id]])
                  /\ \A r \in 1..(born[yielded[1].id] - 1) :
                         ~HasNoErrorCell(doc[r])
           /\ \A i \in 1..(Len(yielded) - 1) :
                  born[yielded[i + 1].id] = born[yielded[i].id] + 1

C2_Witness ==
    /\ variant = "pdf"
    /\ Len(yielded) = 2
    /\ yielded[1].data.response_code = "ErrorAccessDenied"
    /\ yielded[2].data.response_code = "NoError"

\* lines p..q hold one record: the key line p, description lines up to the
\* completing line m, the applicability line m + 1, comment lines, and the
\* empty line q
RecordShape(p, m, q) ==
    /\ is_response_code_line(lines[p])
    /\ \A j \in (p + 1)..q : ~is_response_code_line(lines[j])
    /\ \A j \in (p + 1)..(m - 1) : ~MessageComplete(lines[j])
    /\ MessageComplete(lines[m])
    /\ ~LookAheadStays(TRUE, lines[m + 2])
    /\ \A j \in (m + 2)..(q - 1) : lines[j] # ""
    /\ lines[q] = ""

ScenarioText == "ErrorAccessDenied\nAccess is denied.\nCreateItem\nNone.\n"

\* C3: the scenario text yields exactly one record, ErrorAccessDenied /
\* "Access is denied." / CreateItem; and every record of that shape that is
\* followed by an empty line is yielded exactly once with the key, the
\* description and the applicability of its lines.
C3_RecordBeforeEmptyLineYielded ==
    variant = "pdf" =>
        /\ (lines = Split(ScenarioText, "\n") /\ pc # "interpret") =>
               /\ Len(yielded) = 1
               /\ yielded[1].data.response_code = "ErrorAccessDenied"
               /\ yielded[1].data.message = "Access is denied."
               /\ yielded[1].data.applicable_methods = "CreateItem"
        /\ \A p, m, q \in 1..Len(lines) :
               (p < m /\ m + 1 < q /\ q <= count /\ RecordShape(p, m, q)) =>
                   /\ Cardinality({i \in 1..Len(yielded) :
                                      born[yielded[i].id] = p}) = 1
                   /\ \A i \in 1..Len(yielded) :
                          born[yielded[i].id] = p =>
                              /\ yielded[i].data.response_code = lines[p]
                              /\ yielded[i].data.message =
                                     Join(SubSeq(lines, p + 1, m), " ")
                              /\ yielded[i].data.applicable_methods =
                                     lines[m + 1]

C3_Witness ==
    /\ variant = "pdf"
    /\ lines = Split(ScenarioText, "\n")
    /\ pc = "print_enum"
    /\ Len(yielded) = 1

\* C4: when the input ends in IN_COMMENTS the record in progress is yielded.
C4_EndOfInputInCommentsYields ==
    (variant = "pdf" /\ pc # "interpret" /\ State = "IN_COMMENTS"
         /\ content \in reached) =>
        \E i \in 1..Len(yielded) : yielded[i].id = content

\* C5: when the input ends in IN_DESCRIPTION or IN_APPLICABILITY the record
\* in progress is never yielded, interpret ends without an exception, and
\* the records yielded before are what main collected, unchanged.
C5_TruncatedRecordDropped ==
    (variant = "pdf" /\ pc # "interpret"
         /\ State \in {"IN_DESCRIPTION", "IN_APPLICABILITY"}) =>
        /\ \A i \in 1..Len(yielded) : yielded[i].id # content
        /\ \A i \in 1..Len(items) : items[i] # content
        /\ pc = "print_enum" =>
               /\ raised = ""
               /\ items = YieldedIds
               /\ \A i \in 1..Len(yielded) :
                      heap[yielded[i].id] = Sanitize(yielded[i].data)

C5_Witness ==
    /\ variant = "pdf"
    /\ pc = "print_enum"
    /\ State = "IN_APPLICABILITY"
    /\ Len(yielded) = 1
    /\ content # yielded[1].id

\* C6: a second call of Data.sanitize leaves the four fields as the first
\* call left them.
C6_SanitizeIdempotent ==
    (variant = "sanitize" /\ count = 2) => heap[1] = yielded[1].data

UniqueKeys ==
    \A i, j \in 1..Len(Catalog) :
        Catalog[i].response_code = Catalog[j].response_code => i = j

UniqueMembers ==
    \A i, j \in 1..Len(Catalog) :
        convert_camel_case(Catalog[i].response_code)
            = convert_camel_case(Catalog[j].response_code) => i = j

RoundTrip ==
    \A e \in 1..Len(out.str_to_enum.entries) :
        LET k == out.str_to_enum.entries[e].key
        IN  /\ StrToEnum(out.str_to_enum, k) = Return(convert_camel_case(k))
            /\ EnumToStr(out.enum_to_str, convert_camel_case(k)) = Return(k)

\* C7 as stated: for every catalog with unique keys the generated tables
\* round-trip every key.
C7_RoundTripUniqueKeys ==
    (variant = "msdn" /\ pc = "done" /\ UniqueKeys) => RoundTrip

\* C7, amended: for every catalog whose keys are unique and whose keys have
\* pairwise distinct convert_camel_case names, looking up a key of the
\* string-to-enum table yields the member convert_camel_case(k), and the
\* enum-to-string function applied to that member yields k.
C7_RoundTripUniqueMembers ==
    (variant = "msdn" /\ pc = "done" /\ UniqueKeys /\ UniqueMembers) =>
        RoundTrip

C7_Witness ==
    /\ variant = "msdn"
    /\ pc = "done"
    /\ UniqueKeys
    /\ UniqueMembers
    /\ Len(out.str_to_enum.entries) = 2
    /\ out.str_to_enum.entries[2].key = "ErrorAb"

Keys == {Catalog[i].response_code : i \in 1..Len(Catalog)}

Probes ==
    Keys \cup {"", "NoError", "ErrorAccessDenied", "ErrorAb", "ErrorAB",
               "Success", "noerror", "no_error", "Unknown"}

C9_EmittersLeaveItems ==
    pc \in {"print_str_to_enum", "print_enum_to_str", "done"} =>
        /\ items = YieldedIds
        /\ \A i \in 1..Len(yielded) :
               heap[yielded[i].id] =
                   IF variant = "pdf" THEN Sanitize(yielded[i].data)
                   ELSE yielded[i].data

\* the enumeration has one member per record, in order, named
\* convert_camel_case(key), with a comma after all but the last
EnumMembers ==
    /\ Len(out.enum) = Len(Catalog)
    /\ \A i \in 1..Len(Catalog) :
           /\ out.enum[i].member = convert_camel_case(Catalog[i].response_code)
           /\ out.enum[i].comma = (i # Len(Catalog))

MsdnEnumComments ==
    \A i \in 1..Len(Catalog) :
        out.enum[i].comment =
            print_line_with_continuation(Catalog[i].description,
                                         "        ", "//! ")

SentinelFound ==
    IF variant = "pdf" THEN \E i \in 1..Len(lines) : lines[i] = "NoError"
    ELSE find_first_row(doc) # 0

\* C11: when the sentinel key NoError is not in the input, either script
\* yields no record, prints no code and never ends normally.
C11_MissingSentinelAborts ==
    (variant \in {"pdf", "msdn"} /\ ~SentinelFound) =>
        /\ yielded = <<>>
        /\ out = NoOutput
        /\ pc # "done"

BulletText == "ErrorAccessDenied\nAccess is denied.\nCreateItem\n-first point.\n"

\* the text of a bullet line after its hyphen, without one trailing period
BulletBody(l) ==
    LET rest == SubSeq(l, 2, Len(l))
    IN  IF EndsWith(rest, ".") THEN SubSeq(rest, 1, Len(rest) - 1) ELSE rest

\* C12: in IN_COMMENTS a non-blank line that begins with "-" leaves the
\* comments collected so far as they are and appends a new line made of
\* "* " and the rest of the line without its trailing period, and changes
\* no other record; the record whose only comment line is "-first point."
\* is yielded once and has, after sanitization, the comments
\* "* first point".
C12_BulletLineAppended ==
    /\ [](variant = "pdf" /\ lines = Split(BulletText, "\n")
              /\ pc # "interpret"
            => /\ Len(yielded) = 1
               /\ Catalog[1].comments = "* first point")
    /\ [][(/\ InLoop
           /\ State = "IN_COMMENTS"
           /\ ~is_response_code_line(line)
           /\ StartsWith(line, "-"))
          => /\ content' = content
             /\ heap'[content].comments =
                    heap[content].comments \o "\n* " \o BulletBody(line)
             /\ \A i \in 1..Len(heap) :
                    i # content => heap'[i] = heap[i]]_vars

\* the record with the bullet point was yielded and sanitized
C12_Witness ==
    /\ variant = "pdf"
    /\ lines = Split(BulletText, "\n")
    /\ pc = "print_enum"
    /\ Len(yielded) = 1
    /\ yielded[1].data.comments = "\n* first point"
    /\ Catalog[1].comments = "* first point"

\* a key with its underscores removed and its letters in lower case
Fold(s) == Lower(ReplaceAll(s, "_", ""))

\* a key made of words, each a capital letter followed by lowercase letters
IsCamelCase(s) ==
    /\ s # ""
    /\ Char(s, 1) \in UpperChars
    /\ \A k \in 1..Len(s) :
           /\ Char(s, k) \in UpperChars \cup LowerChars
           /\ Char(s, k) \in UpperChars =>
                  k < Len(s) /\ Char(s, k + 1) \in LowerChars

\* C13 as stated: two distinct record keys have distinct identifiers.
C13_DistinctKeysDistinctIdentifiers ==
    (variant = "camel" /\ count = 2 /\ lines[1] # lines[2]) =>
        heap[1] # heap[2]

\* C13, amended: the identifier of a key is the key in lower case with
\* underscores added; two distinct record keys share an identifier only
\* if they are equal up to letter case and underscores, and never if both
\* are made of capitalized words.
C13_CollisionsOnlyUpToCaseAndUnderscore ==
    (variant = "camel" /\ count = 2) =>
        /\ \A i \in 1..2 : Fold(heap[i]) = Fold(lines[i])
        /\ \A i \in 1..2 : heap[i] = Lower(heap[i])
        /\ (lines[1] # lines[2] /\ heap[1] = heap[2]) =>
               Fold(lines[1]) = Fold(lines[2])
        /\ (lines[1] # lines[2] /\ IsCamelCase(lines[1])
                /\ IsCamelCase(lines[2])) => heap[1] # heap[2]

C13_Witness ==
    /\ variant = "camel"
    /\ count = 2
    /\ lines = <<"ErrorA", "Error_A">>
    /\ heap = <<"error_a", "error_a">>

\* the key an object was created with: the key line of interpret, the Value
\* cell of the row of response_code_in_page
KeyAtCreation(i) ==
    IF variant = "pdf" THEN lines[born[i]] ELSE doc[born[i]].val

\* C14: every record of either script is created with a key that matches
\* the record-key rule, and has that key ever after, sanitized or not.
C14_KeyMatchesRuleAndIsKept ==
    variant \in {"pdf", "msdn"} =>
        \A i \in 1..Len(heap) :
            /\ is_response_code_line(KeyAtCreation(i))
            /\ heap[i].response_code = KeyAtCreation(i)

\* C15: a record that was in progress in IN_COMMENTS when a record-key
\* line started the next record has been yielded: every record that was
\* current in IN_COMMENTS and is no longer the current one is among the
\* yielded records.
C15_KeyLineInCommentsYields ==
    variant = "pdf" =>
        \A id \in reached :
            id # content => \E i \in 1..Len(yielded) : yielded[i].id = id

\* C16 as stated: after a line is consumed in IN_APPLICABILITY the machine
\* stays in IN_APPLICABILITY if and only if the next line is shorter than
\* 31 characters or ends with ")", and does not end with "."; otherwise it
\* is in IN_COMMENTS.
C16_LookAheadOnNextLineAlone ==
    [][(/\ InLoop
        /\ State = "IN_APPLICABILITY"
        /\ ~is_response_code_line(line)
        /\ has_next)
       => State' =
              IF /\ (Len(next_line) < 31 \/ EndsWith(next_line, ")"))
                 /\ ~EndsWith(next_line, ".")
              THEN "IN_APPLICABILITY" ELSE "IN_COMMENTS"]_vars

\* C16, amended: after a line is consumed in IN_APPLICABILITY the machine
\* stays in IN_APPLICABILITY if and only if there is a next line, it is not
\* empty, it is shorter than 31 characters or ends with ")", and it does
\* not end with "."; otherwise (an empty next line and the end of the text
\* included) it is in IN_COMMENTS.
C16_LookAheadOnNonEmptyNextLine ==
    [][(/\ InLoop
        /\ State = "IN_APPLICABILITY"
        /\ ~is_response_code_line(line))
       => State' =
              IF /\ has_next
                 /\ next_line # ""
                 /\ (Len(next_line) < 31 \/ EndsWith(next_line, ")"))
                 /\ ~EndsWith(next_line, ".")
              THEN "IN_APPLICABILITY" ELSE "IN_COMMENTS"]_vars

\* a line of 30 characters was taken for the field, one of 31 was not
C16_Witness ==
    /\ variant = "pdf"
    /\ lines = <<"ErrorAccessDenied", "Access is denied.", "CreateItem",
                 "GetItem, SendItem and MoveItem",
                 "The caller lacks this privilege">>
    /\ count = 4
    /\ heap[content].applicable_methods
           = "CreateItemGetItem, SendItem and MoveItem "
    /\ State = "IN_COMMENTS"

\* a line that ends a description: it ends with a period or with "various
\* messages", or it is "N/A"
EndsDescription(l) ==
    EndsWith(l, ".") \/ EndsWith(l, "various messages") \/ l = "N/A"

\* the lines after key line p, up to line n, that end a description
Completing(p, n) == {m \in (p + 1)..n : EndsDescription(lines[m])}

\* C17: while no line after the key line of the record in progress ends a
\* description the machine is in IN_DESCRIPTION and the description holds
\* the lines read so far, each followed by a space; the first line that
\* ends a description moves the machine to IN_APPLICABILITY, and from then
\* on (and when the record is yielded) the description is the lines from
\* the one after the key line to that line, joined by single spaces.
C17_DescriptionEndsAtFirstCompletingLine ==
    variant = "pdf" =>
        /\ (content # 0 /\ State # "SEEKING_KEY") =>
               LET p == born[content]
                   done == Completing(p, count)
               IN  IF done = {}
                   THEN /\ State = "IN_DESCRIPTION"
                        /\ heap[content].message =
                               Join(SubSeq(lines, p + 1, count) \o <<"">>, " ")
                   ELSE /\ State \in {"IN_APPLICABILITY", "IN_COMMENTS"}
                        /\ count = Least(done) => State = "IN_APPLICABILITY"
                        /\ heap[content].message =
                               Join(SubSeq(lines, p + 1, Least(done)), " ")
        /\ \A i \in 1..Len(yielded) :
               LET p == born[yielded[i].id]
                   done == Completing(p, Len(lines))
               IN  /\ done # {}
                   /\ yielded[i].data.message =
                          Join(SubSeq(lines, p + 1, Least(done)), " ")

C17_Witness ==
    /\ variant = "pdf"
    /\ lines = <<"NoError", "No error", "occurred.", "N/A", "", "">>
    /\ pc = "print_enum"
    /\ Len(yielded) = 1
    /\ yielded[1].data.message = "No error occurred."

\* C18: a record that interpret has yielded keeps the fields it had when
\* main sanitized it: a line consumed after the yield changes no yielded
\* record, it changes nothing at all when the machine is in SEEKING_KEY and
\* the line is not a record key, and a record-key line only creates a
\* record.
C18_YieldedRecordsAreFrozen ==
    /\ [](variant = "pdf" =>
             \A i \in 1..Len(yielded) :
                 heap[yielded[i].id] = Sanitize(yielded[i].data))
    /\ [][(InLoop /\ variant = "pdf")
          => /\ \A i \in 1..Len(yielded) :
                    heap'[yielded[i].id] = heap[yielded[i].id]
             /\ (State = "SEEKING_KEY" /\ ~is_response_code_line(line))
                    => heap' = heap /\ content' = content
             /\ is_response_code_line(line)
                    => SubSeq(heap', 1, Len(heap)) = heap]_vars

\* a record was yielded and lines of a second record were consumed after it
C18_Witness ==
    /\ variant = "pdf"
    /\ Len(yielded) = 1
    /\ Len(heap) = 2
    /\ content = 2
    /\ yielded[1].id = 1
    /\ State = "IN_COMMENTS"
    /\ heap[1] = Sanitize(yielded[1].data)

\* C19: a second call of the sanitizer of response_code_in_page returns
\* what the first call returned.
C19_SanitizeCommentIdempotent ==
    (variant = "msdn_sanitize" /\ count = 2) => heap[1] = yielded[1]

\* the last line of the applicable methods of a record whose description
\* ends at line m: the first line from m + 1 on after which the look-ahead
\* does not keep the machine in IN_APPLICABILITY
LastMethodsLine(m) ==
    Least({k \in (m + 1)..Len(lines) :
              ~LookAheadStays(k < Len(lines),
                              IF k < Len(lines) THEN lines[k + 1] ELSE "")})

\* C20: the applicable methods of a yielded record are the lines consumed
\* in IN_APPLICABILITY, in order, with a space between consecutive lines.
C20_WrappedMethodsSeparated ==
    variant = "pdf" =>
        \A i \in 1..Len(yielded) :
            LET p == born[yielded[i].id]
                m == Least(Completing(p, Len(lines)))
            IN  Catalog[i].applicable_methods =
                    Strip(Join(SubSeq(lines, m + 1, LastMethodsLine(m)), " "))

====
